---- MODULE Spec2Model ----
(***************************************************************************)
(* Model of the SchoolAI audio pipeline (utils/audio: decode,              *)
(* createWavBlob, decodePcmData) and of the Summarizer playback            *)
(* controller with the App state it reads.                                 *)
(*                                                                         *)
(* Texts are tuples of one-character strings.  A sample value is kept as   *)
(* its numerator over the fixed denominator SampleDivisor (32768): every   *)
(* int16 / 32768 is exact in a Float32Array, so nothing is lost.           *)
(***************************************************************************)
EXTENDS Integers, Sequences, FiniteSets, TLC

\* ------------------------------------------------------------------------
\* Bounds of the model
\* ------------------------------------------------------------------------
MaxPcmLen == 3
MaxRequests == 2
MaxMounts == 2
NumFiles == 1

\* messages a Chatbot instance holds at most
MaxMessages == 3

\* ------------------------------------------------------------------------
\* utils/audio: byte-level helpers
\* ------------------------------------------------------------------------
Pow2(n) == 2 ^ n

ToUint7(v) == v % 128

\* a DataView / Uint8Array store keeps the low 8 bits
ToUint8(v) == v % 256

B64Alphabet ==
    << "A","B","C","D","E","F","G","H","I","J","K","L","M","N","O","P",
       "Q","R","S","T","U","V","W","X","Y","Z","a","b","c","d","e","f",
       "g","h","i","j","k","l","m","n","o","p","q","r","s","t","u","v",
       "w","x","y","z","0","1","2","3","4","5","6","7","8","9","+","/" >>

IsB64Char(c) == \E i \in 1..64 : B64Alphabet[i] = c

B64Index(c) == (CHOOSE i \in 1..64 : B64Alphabet[i] = c) - 1

IsAsciiWhitespace(c) == c \in {" ", "\t", "\n", "\f", "\r"}

\* the 6-bit values of up to four characters, as one number
RECURSIVE B64Bits(_)
B64Bits(t) ==
    IF t = << >> THEN 0
    ELSE B64Bits(SubSeq(t, 1, Len(t) - 1)) * 64 + B64Index(t[Len(t)])

B64GroupKeepBits(g) ==
    LET nbytes == (Len(g) * 6) \div 8
        bits   == B64Bits(g)
    IN  [i \in 1..nbytes |-> (bits \div Pow2(8 * (nbytes - i))) % 256]

\* the whole bytes of one group of 2, 3 or 4 characters
B64Group(g) ==
    LET nbytes == (Len(g) * 6) \div 8
        drop   == Len(g) * 6 - nbytes * 8
        bits   == B64Bits(g) \div Pow2(drop)
    IN  [i \in 1..nbytes |-> (bits \div Pow2(8 * (nbytes - i))) % 256]

RECURSIVE B64Bytes(_)
B64Bytes(t) ==
    IF Len(t) <= 4 THEN B64Group(t)
    ELSE B64Group(SubSeq(t, 1, 4)) \o B64Bytes(SubSeq(t, 5, Len(t)))

StripPadding(t) ==
    IF Len(t) > 0 /\ Len(t) % 4 = 0
    THEN IF t[Len(t)] = "=" /\ t[Len(t) - 1] = "="
         THEN SubSeq(t, 1, Len(t) - 2)
         ELSE IF t[Len(t)] = "="
              THEN SubSeq(t, 1, Len(t) - 1)
              ELSE t
    ELSE t

\* atob as the platform defines it (forgiving-base64 decode): whitespace is
\* dropped, one or two trailing "=" are dropped when the length is a multiple
\* of 4, a length of 1 mod 4 or a character outside the alphabet fails, and
\* the bits left over after the last whole byte are discarded.
atob(base64) ==
    LET nows == SelectSeq(base64, LAMBDA c : ~IsAsciiWhitespace(c))
        data == StripPadding(nows)
    IN  IF Len(data) % 4 = 1 \/ \E i \in 1..Len(data) : ~IsB64Char(data[i])
        THEN [ok |-> FALSE, error |-> "InvalidCharacterError", bytes |-> << >>]
        ELSE [ok |-> TRUE, error |-> "", bytes |-> B64Bytes(data)]

\* decode(base64): one byte per character code of atob's binary string
decode(base64) ==
    LET binaryString == atob(base64)
    IN  IF ~binaryString.ok
        THEN binaryString
        ELSE [ok |-> TRUE, error |-> "",
              bytes |-> [i \in 1..Len(binaryString.bytes) |->
                            ToUint8(binaryString.bytes[i])]]

\* String.charCodeAt for the characters the WAV header uses
CharCode(c) ==
    CASE c = "R" -> 82  [] c = "I" -> 73  [] c = "F" -> 70
      [] c = "W" -> 87  [] c = "A" -> 65  [] c = "V" -> 86
      [] c = "E" -> 69  [] c = "f" -> 102 [] c = "m" -> 109
      [] c = "t" -> 116 [] c = " " -> 32  [] c = "d" -> 100
      [] c = "a" -> 97

\* a buffer is a sequence of bytes; byte offset k is element k + 1
ZeroBuffer(n) == [i \in 1..n |-> 0]

SetBytes(view, offset, bs) ==
    [i \in 1..Len(view) |->
        IF i > offset /\ i <= offset + Len(bs) THEN bs[i - offset] ELSE view[i]]

setUint8(view, offset, value) == SetBytes(view, offset, << ToUint8(value) >>)

setUint16BigEndian(view, offset, value, littleEndian) ==
    LET v == value % Pow2(16)
    IN  SetBytes(view, offset, << v \div 256, v % 256 >>)

setUint16(view, offset, value, littleEndian) ==
    LET v  == value % Pow2(16)
        lo == v % 256
        hi == v \div 256
    IN  SetBytes(view, offset, IF littleEndian THEN << lo, hi >> ELSE << hi, lo >>)

setUint32Shifted(view, offset, value, littleEndian) ==
    LET v == value + 8
    IN  SetBytes(view, offset,
                 << v % 256, (v \div Pow2(8)) % 256, (v \div Pow2(16)) % 256,
                    (v \div Pow2(24)) % 256 >>)

setUint32(view, offset, value, littleEndian) ==
    LET v  == value
        b0 == v % 256
        b1 == (v \div Pow2(8)) % 256
        b2 == (v \div Pow2(16)) % 256
        b3 == (v \div Pow2(24)) % 256
    IN  SetBytes(view, offset,
                 IF littleEndian THEN << b0, b1, b2, b3 >> ELSE << b3, b2, b1, b0 >>)

writeString(view, offset, string) ==
    SetBytes(view, offset, [i \in 1..Len(string) |-> ToUint8(CharCode(string[i]))])

getUint32LE(bytes, offset) ==
    bytes[offset + 1] + 256 * bytes[offset + 2]
        + 65536 * bytes[offset + 3] + 16777216 * bytes[offset + 4]

getUint16LE(bytes, offset) == bytes[offset + 1] + 256 * bytes[offset + 2]

WavSampleRate == 24000
WavNumChannels == 1
WavBitsPerSample == 16
WavHeaderSize == 44

\* createWavBlob(pcmData): the bytes of the Blob
createWavBlob(pcmData) ==
    LET sampleRate == WavSampleRate
        numChannels == WavNumChannels
        bitsPerSample == WavBitsPerSample
        dataSize == Len(pcmData)
        blockAlign == (numChannels * bitsPerSample) \div 8
        byteRate == sampleRate * blockAlign
        v0  == ZeroBuffer(WavHeaderSize + dataSize)
        v1  == writeString(v0, 0, << "R", "I", "F", "F" >>)
        v2  == setUint32(v1, 4, 36 + dataSize, TRUE)
        v3  == writeString(v2, 8, << "W", "A", "V", "E" >>)
        v4  == writeString(v3, 12, << "f", "m", "t", " " >>)
        v5  == setUint32(v4, 16, 16, TRUE)
        v6  == setUint16(v5, 20, 1, TRUE)
        v7  == setUint16(v6, 22, numChannels, TRUE)
        v8  == setUint32(v7, 24, sampleRate, TRUE)
        v9  == setUint32(v8, 28, byteRate, TRUE)
        v10 == setUint16(v9, 32, blockAlign, TRUE)
        v11 == setUint16(v10, 34, bitsPerSample, TRUE)
        v12 == writeString(v11, 36, << "d", "a", "t", "a" >>)
        v13 == setUint32(v12, 40, dataSize, TRUE)
    IN  SetBytes(v13, WavHeaderSize, [i \in 1..Len(pcmData) |-> ToUint8(pcmData[i])])

PcmSampleRate == 24000
PcmNumChannels == 1
SampleDivisor == 32768

Int16AtBigEndian(bytes, i) ==
    LET u == 256 * bytes[2 * i + 1] + bytes[2 * i + 2]
    IN  IF u >= 32768 THEN u - 65536 ELSE u

\* element i (0-based) of an Int16Array laid over the bytes (little-endian,
\* as on every platform the browser build runs on)
Int16At(bytes, i) ==
    LET u == bytes[2 * i + 1] + 256 * bytes[2 * i + 2]
    IN  IF u >= 32768 THEN u - 65536 ELSE u

SampleSymmetric(int16) == [num |-> int16, den |-> 32767]

\* a sample of a channel: the quotient num / den, kept unreduced
Sample(int16) == [num |-> int16, den |-> SampleDivisor]

NoBuffer(err) ==
    [ok |-> FALSE, error |-> err, numberOfChannels |-> 0, sampleRate |-> 0,
     length |-> 0, channelData |-> << >>]

decodePcmDataTruncating(pcmData) ==
    LET frameCount == Len(pcmData) \div 2
    IN  IF frameCount = 0
        THEN NoBuffer("NotSupportedError")
        ELSE [ok |-> TRUE, error |-> "",
              numberOfChannels |-> PcmNumChannels,
              sampleRate |-> PcmSampleRate,
              length |-> frameCount,
              channelData |-> [i \in 1..frameCount |->
                                  Sample(Int16At(pcmData, i - 1))]]

\* decodePcmData(pcmData, ctx): new Int16Array(buffer) throws a RangeError
\* when the byte length is not a multiple of 2, and ctx.createBuffer throws
\* a NotSupportedError for a length of 0 frames; otherwise one frame per
\* int16, stored as int16 / 32768.
decodePcmData(pcmData) ==
    IF Len(pcmData) % 2 # 0
    THEN NoBuffer("RangeError")
    ELSE LET frameCount == (Len(pcmData) \div 2) \div PcmNumChannels
         IN  IF frameCount = 0
             THEN NoBuffer("NotSupportedError")
             ELSE [ok |-> TRUE, error |-> "",
                   numberOfChannels |-> PcmNumChannels,
                   sampleRate |-> PcmSampleRate,
                   length |-> frameCount,
                   channelData |-> [i \in 1..frameCount |->
                                       Sample(Int16At(pcmData, i - 1))]]

\* ------------------------------------------------------------------------
\* Values the remote collaborators and the user can supply
\* ------------------------------------------------------------------------
NoAudio == << >>
AudioA == << "A", "A", "A", "B", "/", "w", "=", "=" >>
AudioB == << "A", "I", "A", "=" >>
AudioOdd == << "A", "A", "=", "=" >>
AudioBad == << "!", "A", "A", "A" >>
\* what generateSpeech can return: audio that plays, audio of odd byte length,
\* text that is not base64
SpeechResults == {AudioA, AudioOdd, AudioBad}

TranscriptTexts == {"t1"}
SummaryTexts == {"", "s1"}

NoError == "null"
StepNone == ""
StepTranscribing == "Transcribing audio..."
StepSummarizing == "Summarizing text..."
StepSpeech == "Generating speech..."

VARIABLES
    \* App (src/App.tsx)
    view, transcription, summary, audioFile, isLoading, loadingStep, error,
    summaryAudio,
    \* position of the async handlers of App
    procPc, speechPc,
    \* Summarizer instance (src/components/Summarizer.tsx)
    mount, mounts, isPlaying, audioContextRef, audioSourceRef,
    \* platform audio objects and suspended playBuffer calls
    ctxCount, sources, plays, nextReq,
    \* utils/audio applied to drawn inputs
    b64, pcmData, wavBlob, audioBuffer,
    \* left behind by the handler or callback that ran in the latest step:
    \* the error it passed to console.error, and the object URLs it created
    \* and had not revoked when it returned
    logged, unreleased,
    \* arguments of the pending summarizeText and generateSpeech calls
    summarizeArg, speechArg,
    \* Chatbot instance (src/components/Chatbot.tsx) and the sendMessage
    \* requests in flight
    chat, messages, input, chatIsLoading, chatError, sends

appVars == << view, transcription, summary, audioFile, isLoading, loadingStep,
              error, summaryAudio, procPc, speechPc >>
sumVars == << mount, mounts, isPlaying, audioContextRef, audioSourceRef,
              ctxCount, sources, plays, nextReq >>
audVars == << b64, pcmData, wavBlob, audioBuffer >>
outVars == << logged, unreleased >>
callVars == << summarizeArg, speechArg >>
chatVars == << chat, messages, input, chatIsLoading, chatError, sends >>
vars == << appVars, sumVars, audVars, outVars, callVars, chatVars >>

NoLog == ""

\* the step logs nothing and leaves no object URL behind
Quiet == logged' = NoLog /\ unreleased' = 0

\* console.error(err) in a catch block
Logs(err) == logged' = err /\ unreleased' = 0

\* ------------------------------------------------------------------------
\* Playback: sources, suspended plays
\* ------------------------------------------------------------------------
Live(s) == s.state = "playing"

LiveSources == {s \in sources : Live(s)}

StopRefNothing(srcs, ref) == srcs

\* audioSourceRef.current?.stop(): the playing source the ref holds stops,
\* its ended event is still to be dispatched; a source that has stopped
\* already is left as it is
StopRef(srcs, ref) ==
    {IF s.req = ref /\ s.state = "playing" THEN [s EXCEPT !.state = "stopped"] ELSE s
        : s \in srcs}

\* bookkeeping: a stop was requested on instance inst after these requests
\* (suspended playBuffer calls or sources) were made
MarkStop(rs, inst) ==
    {IF r.inst = inst THEN [r EXCEPT !.stopSince = TRUE] ELSE r : r \in rs}


\* the effect of Summarizer.tsx:111-116 fires when a committed render has
\* summaryAudio set, isLoading true and loadingStep empty
AutoPlayCondition(sa, il, ls) == sa # NoAudio /\ il /\ ls = StepNone

StartPlayBufferFresh(base64) ==
    /\ nextReq <= MaxRequests
    /\ ctxCount' = ctxCount + 1
    /\ audioContextRef' = ctxCount + 1
    /\ plays' = plays \cup {[req |-> nextReq, inst |-> mount,
                             ctx |-> audioContextRef', base64 |-> base64,
                             stopSince |-> FALSE]}
    /\ nextReq' = nextReq + 1
    /\ UNCHANGED << isPlaying, audioSourceRef, sources, mount, mounts >>

\* playBuffer up to its first await: the AudioContext is created when the
\* ref is empty, then the call is suspended in audioContext.resume()
StartPlayBuffer(base64) ==
    /\ nextReq <= MaxRequests
    /\ IF audioContextRef = 0
       THEN /\ ctxCount' = ctxCount + 1
            /\ audioContextRef' = ctxCount + 1
       ELSE UNCHANGED << ctxCount, audioContextRef >>
    /\ plays' = plays \cup {[req |-> nextReq, inst |-> mount,
                             ctx |-> audioContextRef', base64 |-> base64,
                             stopSince |-> FALSE]}
    /\ nextReq' = nextReq + 1
    /\ UNCHANGED << isPlaying, audioSourceRef, sources, mount, mounts >>

\* the stop branch of playSummaryAudio
StopBranch ==
    /\ sources' = MarkStop(StopRef(sources, audioSourceRef), mount)
    /\ plays' = MarkStop(plays, mount)
    /\ isPlaying' = FALSE
    /\ UNCHANGED << audioSourceRef, audioContextRef, ctxCount, nextReq, mount, mounts >>

\* handleGenerateSpeech up to its await (summary is non-empty at the call)
StartGenerateSpeech ==
    /\ isLoading' = TRUE
    /\ loadingStep' = StepSpeech
    /\ error' = NoError
    /\ speechPc' = "generating"
    /\ speechArg' = summary
    /\ UNCHANGED << view, transcription, summary, audioFile, summaryAudio, procPc >>

\* ------------------------------------------------------------------------
\* State of the Chatbot view
\* ------------------------------------------------------------------------
\* texts the user can type: sequences of characters, " " being whitespace
InputTexts == {<< >>, <<" ">>, <<"q">>, <<"q", " ">>}

ResponseText == <<"a">>

RECURSIVE TrimStart(_)
TrimStart(t) ==
    IF t # << >> /\ Head(t) = " " THEN TrimStart(Tail(t)) ELSE t

RECURSIVE TrimEnd(_)
TrimEnd(t) ==
    IF t # << >> /\ t[Len(t)] = " " THEN TrimEnd(SubSeq(t, 1, Len(t) - 1)) ELSE t

\* String.prototype.trim
Trim(t) == TrimEnd(TrimStart(t))

NoChat == "null"

\* the session created by initChat: with the context of the audio file when
\* both props are non-empty, generic otherwise
NewChat(t, s) == IF t # "" /\ s # "" THEN "context" ELSE "generic"

InitialMessage(t, s) ==
    [role |-> "model",
     text |-> IF t # "" /\ s # "" THEN <<"I have the context">> ELSE <<"Hello">>]

\* initChat, run by the effect on mount and whenever transcription or summary
\* changes: a new session and a message list holding the greeting only
initChat(t, s) ==
    /\ chat' = NewChat(t, s)
    /\ messages' = << InitialMessage(t, s) >>

\* the Chatbot instance on screen (0 when the Summarizer is shown)
ChatInstance == IF view = "chatbot" THEN mounts ELSE 0

\* a step of the App that may change the props of a mounted Chatbot
ChatPropsEffect ==
    IF view = "chatbot" /\ (transcription' # transcription \/ summary' # summary)
    THEN /\ initChat(transcription', summary')
         /\ UNCHANGED << input, chatIsLoading, chatError, sends >>
    ELSE UNCHANGED chatVars

\* ------------------------------------------------------------------------
\* Actions of the Summarizer view
\* ------------------------------------------------------------------------
\* click on the play / stop button: playSummaryAudio
TogglePlaying ==
    /\ mount # 0 /\ summary # ""
    /\ ~(isLoading /\ loadingStep = StepSpeech)
    /\ isPlaying
    /\ StopBranch
    /\ UNCHANGED << appVars, audVars, callVars, chatVars >>
    /\ Quiet

TogglePlay ==
    /\ mount # 0 /\ summary # ""
    /\ ~(isLoading /\ loadingStep = StepSpeech)
    /\ ~isPlaying
    /\ summaryAudio # NoAudio
    /\ StartPlayBuffer(summaryAudio)
    /\ UNCHANGED << appVars, audVars, callVars, chatVars >>
    /\ Quiet

ToggleGenerate ==
    /\ mount # 0 /\ summary # ""
    /\ ~(isLoading /\ loadingStep = StepSpeech)
    /\ ~isPlaying
    /\ summaryAudio = NoAudio
    /\ StartGenerateSpeech
    /\ UNCHANGED << sumVars, audVars, summarizeArg, chatVars >>
    /\ Quiet

AudioFileEffectToggling ==
    IF isPlaying
    THEN /\ sources' = MarkStop(StopRef(sources, audioSourceRef), mount)
         /\ isPlaying' = FALSE
    ELSE /\ sources' = MarkStop(sources, mount)
         /\ isPlaying' = TRUE

\* the effect of Summarizer.tsx:61-67, run after a render in which the
\* audioFile prop changed
AudioFileEffect ==
    IF isPlaying
    THEN /\ sources' = MarkStop(StopRef(sources, audioSourceRef), mount)
         /\ isPlaying' = FALSE
    ELSE /\ sources' = MarkStop(sources, mount)
         /\ UNCHANGED isPlaying

\* a handleFileChange that keeps the generated audio when a new audio file
\* is selected
handleFileChangeKeeping ==
    /\ mount # 0 /\ ~isLoading
    /\ \E file \in 0..NumFiles :
          /\ IF file # 0
             THEN /\ audioFile' = file
                  /\ transcription' = ""
                  /\ summary' = ""
                  /\ error' = NoError
                  /\ UNCHANGED summaryAudio
             ELSE /\ error' = "Please upload a valid audio file."
                  /\ audioFile' = 0
                  /\ UNCHANGED << transcription, summary, summaryAudio >>
          /\ IF audioFile' # 0 \/ audioFile # 0
             THEN /\ AudioFileEffect
                  /\ plays' = MarkStop(plays, mount)
             ELSE UNCHANGED << sources, isPlaying, plays >>
    /\ UNCHANGED << view, isLoading, loadingStep, procPc, speechPc >>
    /\ UNCHANGED << mount, mounts, audioContextRef, audioSourceRef, ctxCount, nextReq >>
    /\ UNCHANGED << audVars, callVars, chatVars >>
    /\ Quiet

\* change event of the file input (disabled while isLoading): handleFileChange,
\* then the audioFile effect of the mounted Summarizer.  Every selection is
\* a new File object, so the prop changes unless it stays null.
handleFileChange ==
    /\ mount # 0 /\ ~isLoading
    /\ \E file \in 0..NumFiles :
          /\ IF file # 0
             THEN /\ audioFile' = file
                  /\ transcription' = ""
                  /\ summary' = ""
                  /\ error' = NoError
                  /\ summaryAudio' = NoAudio
             ELSE /\ error' = "Please upload a valid audio file."
                  /\ audioFile' = 0
                  /\ UNCHANGED << transcription, summary, summaryAudio >>
          /\ IF audioFile' # 0 \/ audioFile # 0
             THEN /\ AudioFileEffect
                  /\ plays' = MarkStop(plays, mount)
             ELSE UNCHANGED << sources, isPlaying, plays >>
    /\ UNCHANGED << view, isLoading, loadingStep, procPc, speechPc >>
    /\ UNCHANGED << mount, mounts, audioContextRef, audioSourceRef, ctxCount, nextReq >>
    /\ UNCHANGED << audVars, callVars, chatVars >>
    /\ Quiet

\* a processAudio that keeps the audio generated for the previous summary
processAudioKeeping ==
    /\ mount # 0 /\ audioFile # 0 /\ ~isLoading
    /\ isLoading' = TRUE
    /\ error' = NoError
    /\ transcription' = ""
    /\ summary' = ""
    /\ loadingStep' = StepTranscribing
    /\ procPc' = "transcribing"
    /\ UNCHANGED << view, audioFile, summaryAudio, speechPc, sumVars, audVars,
                    callVars, chatVars >>
    /\ Quiet

\* click on "Transcribe & Summarize" (rendered when audioFile is set,
\* disabled while isLoading): processAudio up to its first await
processAudio ==
    /\ mount # 0 /\ audioFile # 0 /\ ~isLoading
    /\ isLoading' = TRUE
    /\ error' = NoError
    /\ transcription' = ""
    /\ summary' = ""
    /\ summaryAudio' = NoAudio
    /\ loadingStep' = StepTranscribing
    /\ procPc' = "transcribing"
    /\ UNCHANGED << view, audioFile, speechPc, sumVars, audVars, callVars, chatVars >>
    /\ Quiet

\* a processAudio that passes the transcription state of its render to
\* summarizeText instead of the text transcribeAudio returned
TranscribeReturnsStale ==
    /\ procPc = "transcribing"
    /\ \E transcribedText \in TranscriptTexts :
          /\ transcription' = transcribedText
          /\ summarizeArg' = transcription
    /\ loadingStep' = StepSummarizing
    /\ procPc' = "summarizing"
    /\ UNCHANGED << view, summary, audioFile, isLoading, error, summaryAudio,
                    speechPc, sumVars, audVars, speechArg >>
    /\ ChatPropsEffect
    /\ Quiet

\* fileToBase64, getFileMimeType and transcribeAudio have returned
TranscribeReturns ==
    /\ procPc = "transcribing"
    /\ \E transcribedText \in TranscriptTexts :
          /\ transcription' = transcribedText
          /\ summarizeArg' = transcribedText
    /\ loadingStep' = StepSummarizing
    /\ procPc' = "summarizing"
    /\ UNCHANGED << view, summary, audioFile, isLoading, error, summaryAudio,
                    speechPc, sumVars, audVars, speechArg >>
    /\ ChatPropsEffect
    /\ Quiet

\* one of them has thrown: catch and finally of processAudio
TranscribeFails ==
    /\ procPc = "transcribing"
    /\ error' = "Failed to transcribe audio. The model may not have been able to process the file."
    /\ isLoading' = FALSE
    /\ loadingStep' = StepNone
    /\ procPc' = "idle"
    /\ UNCHANGED << view, transcription, summary, audioFile, summaryAudio,
                    speechPc, sumVars, audVars, callVars, chatVars >>
    /\ Logs(error')

SummarizeReturns ==
    /\ procPc = "summarizing"
    /\ \E summarizedText \in SummaryTexts :
          summary' = summarizedText
    /\ isLoading' = FALSE
    /\ loadingStep' = StepNone
    /\ procPc' = "idle"
    /\ summarizeArg' = ""
    /\ UNCHANGED << view, transcription, audioFile, error, summaryAudio,
                    speechPc, sumVars, audVars, speechArg >>
    /\ ChatPropsEffect
    /\ Quiet

SummarizeFails ==
    /\ procPc = "summarizing"
    /\ error' = "Failed to summarize text."
    /\ isLoading' = FALSE
    /\ loadingStep' = StepNone
    /\ procPc' = "idle"
    /\ summarizeArg' = ""
    /\ UNCHANGED << view, transcription, summary, audioFile, summaryAudio,
                    speechPc, sumVars, audVars, speechArg, chatVars >>
    /\ Logs(error')

\* the renders committed while handleGenerateSpeech stores its result: one
\* per setter when the updates are not batched, the last one alone when
\* they are
SpeechCommits(base64Audio) ==
    << << base64Audio, TRUE, StepSpeech >>,
       << base64Audio, FALSE, StepSpeech >>,
       << base64Audio, FALSE, StepNone >> >>

\* what the text-to-speech request can come back with: a rejection, a
\* response without audio data, or a response with audio data
SpeechResponses ==
    {[ok |-> FALSE, data |-> NoAudio]}
        \cup {[ok |-> TRUE, data |-> d] : d \in SpeechResults \cup {NoAudio}}

\* a generateSpeech without the check for missing audio data
generateSpeechUnchecked(response) ==
    IF response.ok
    THEN [ok |-> TRUE, value |-> response.data, message |-> ""]
    ELSE [ok |-> FALSE, value |-> NoAudio,
          message |-> "Failed to generate speech from summary."]

\* generateSpeech of geminiService: the data of the response, or the one
\* error its catch block throws (a response without data throws inside the
\* try, so it is rethrown with the same message as a rejection)
generateSpeech(response) ==
    IF response.ok /\ response.data # NoAudio
    THEN [ok |-> TRUE, value |-> response.data, message |-> ""]
    ELSE [ok |-> FALSE, value |-> NoAudio,
          message |-> "Failed to generate speech from summary."]

\* generateSpeech has returned audio: setSummaryAudio, finally, and the
\* auto-play effect of the mounted Summarizer
SpeechReturns ==
    /\ speechPc = "generating"
    /\ \E response \in SpeechResponses :
        LET base64Audio == generateSpeech(response).value IN
          /\ generateSpeech(response).ok
          /\ summaryAudio' = base64Audio
          /\ IF mount # 0
                /\ \E i \in 1..3 :
                      AutoPlayCondition(SpeechCommits(base64Audio)[i][1],
                                        SpeechCommits(base64Audio)[i][2],
                                        SpeechCommits(base64Audio)[i][3])
             THEN IF isPlaying THEN StopBranch ELSE StartPlayBuffer(base64Audio)
             ELSE UNCHANGED sumVars
    /\ isLoading' = FALSE
    /\ loadingStep' = StepNone
    /\ speechPc' = "idle"
    /\ speechArg' = ""
    /\ UNCHANGED << view, transcription, summary, audioFile, error, procPc,
                    audVars, summarizeArg, chatVars >>
    /\ Quiet

\* a handleGenerateSpeech whose catch block is not followed by the finally
SpeechFailsLoading ==
    /\ speechPc = "generating"
    /\ \E response \in SpeechResponses :
          /\ ~generateSpeech(response).ok
          /\ error' = generateSpeech(response).message
    /\ speechPc' = "idle"
    /\ speechArg' = ""
    /\ UNCHANGED << view, transcription, summary, audioFile, summaryAudio,
                    isLoading, loadingStep,
                    procPc, sumVars, audVars, summarizeArg, chatVars >>
    /\ Logs(error')

\* generateSpeech has thrown (request failed, or no audio in the response)
SpeechFails ==
    /\ speechPc = "generating"
    /\ \E response \in SpeechResponses :
          /\ ~generateSpeech(response).ok
          /\ error' = generateSpeech(response).message
    /\ isLoading' = FALSE
    /\ loadingStep' = StepNone
    /\ speechPc' = "idle"
    /\ speechArg' = ""
    /\ UNCHANGED << view, transcription, summary, audioFile, summaryAudio,
                    procPc, sumVars, audVars, summarizeArg, chatVars >>
    /\ Logs(error')

\* audioContext.resume() has resolved for a suspended playBuffer call: the
\* rest of playBuffer.  The await of decodePcmData yields to microtasks
\* only, so no event handler runs before source.start(0).
PlayResumed ==
    \E p \in plays :
       LET pcm == decode(p.base64)
           decodedBuffer == decodePcmData(pcm.bytes)
       IN  /\ plays' = plays \ {p}
           /\ IF pcm.ok /\ decodedBuffer.ok
              THEN /\ sources' = sources \cup
                          {[req |-> p.req, inst |-> p.inst, ctx |-> p.ctx,
                            base64 |-> p.base64,
                            buffer |-> decodedBuffer.channelData,
                            offset |-> 0, state |-> "playing",
                            startedAfterStop |-> p.stopSince,
                            stopSince |-> p.stopSince]}
                   /\ IF p.inst = mount
                      THEN /\ audioSourceRef' = p.req
                           /\ isPlaying' = TRUE
                      ELSE UNCHANGED << audioSourceRef, isPlaying >>
                   /\ Quiet
              ELSE /\ UNCHANGED << sources, audioSourceRef, isPlaying >>
                   /\ Quiet
           /\ UNCHANGED << mount, mounts, audioContextRef, ctxCount, nextReq >>
           /\ UNCHANGED << appVars, audVars, callVars, chatVars >>

\* audioContext.resume() has rejected: playBuffer ends with the rejection
PlayResumeFails ==
    \E p \in plays :
       /\ plays' = plays \ {p}
       /\ Quiet
       /\ UNCHANGED << mount, mounts, isPlaying, audioContextRef, audioSourceRef,
                       ctxCount, sources, nextReq >>
       /\ UNCHANGED << appVars, audVars, callVars, chatVars >>

\* the ended event of a source, dispatched once after it has played to its
\* end or after stop(): source.onended.  Nothing refers to the source
\* afterwards.
SourceEnded ==
    \E s \in sources :
       /\ sources' = sources \ {s}
       /\ IF s.inst = mount
          THEN /\ isPlaying' = FALSE
               /\ audioSourceRef' = 0
          ELSE UNCHANGED << isPlaying, audioSourceRef >>
       /\ UNCHANGED << mount, mounts, audioContextRef, ctxCount, plays, nextReq >>
       /\ UNCHANGED << appVars, audVars, callVars, chatVars >>
       /\ Quiet

\* the save of handleDownload (appendChild, click, removeChild) throwing
SaveError == "SaveError"

handleDownloadClearing ==
    /\ mount # 0 /\ summaryAudio # NoAudio
    /\ LET pcm == decode(summaryAudio)
       IN  IF ~pcm.ok
           THEN /\ Logs(pcm.error)
                /\ summaryAudio' = NoAudio
           ELSE /\ Quiet
                /\ UNCHANGED summaryAudio
    /\ UNCHANGED << view, transcription, summary, audioFile, isLoading, loadingStep,
                    error, procPc, speechPc, sumVars, audVars, callVars, chatVars >>

\* click on the download button (rendered when summaryAudio is set):
\* handleDownload.  Whatever the try block raises is caught and logged;
\* revokeObjectURL is the last statement of the try block.
handleDownload ==
    /\ mount # 0 /\ summaryAudio # NoAudio
    /\ LET pcm  == decode(summaryAudio)
           wav  == createWavBlob(pcm.bytes)
       IN  IF ~pcm.ok
           THEN Logs(pcm.error)
           ELSE \E saveThrows \in BOOLEAN :
                   IF saveThrows
                   THEN /\ logged' = SaveError
                        /\ unreleased' = IF Len(wav) >= WavHeaderSize THEN 1 ELSE 0
                   ELSE Quiet
    /\ UNCHANGED << appVars, sumVars, audVars, callVars, chatVars >>

\* navigation to the Chatbot view: the Summarizer unmounts and its cleanup
\* (Summarizer.tsx:55-59) runs
ShowChatbot ==
    /\ view = "summarizer"
    /\ view' = "chatbot"
    /\ sources' = MarkStop(StopRef(sources, audioSourceRef), mount)
    /\ plays' = MarkStop(plays, mount)
    /\ mount' = 0
    /\ isPlaying' = FALSE
    /\ audioContextRef' = 0
    /\ audioSourceRef' = 0
    /\ UNCHANGED << mounts, ctxCount, nextReq >>
    /\ UNCHANGED << transcription, summary, audioFile, isLoading, loadingStep,
                    error, summaryAudio, procPc, speechPc, audVars, callVars >>
    /\ initChat(transcription, summary)
    /\ UNCHANGED << input, chatIsLoading, chatError, sends >>
    /\ Quiet

\* navigation back: a new Summarizer instance mounts with fresh state and
\* refs; its effects run once (neither has anything to do on a fresh
\* instance unless the auto-play condition holds)
ShowSummarizer ==
    /\ view = "chatbot"
    /\ mounts < MaxMounts
    /\ view' = "summarizer"
    /\ mounts' = mounts + 1
    /\ mount' = mounts + 1
    /\ isPlaying' = FALSE
    /\ audioSourceRef' = 0
    /\ IF AutoPlayCondition(summaryAudio, isLoading, loadingStep)
          /\ summary # "" /\ nextReq <= MaxRequests
       THEN /\ ctxCount' = ctxCount + 1
            /\ audioContextRef' = ctxCount + 1
            /\ plays' = plays \cup {[req |-> nextReq, inst |-> mounts + 1,
                                     ctx |-> ctxCount + 1, base64 |-> summaryAudio,
                                     stopSince |-> FALSE]}
            /\ nextReq' = nextReq + 1
       ELSE /\ audioContextRef' = 0
            /\ UNCHANGED << ctxCount, plays, nextReq >>
    /\ UNCHANGED sources
    /\ UNCHANGED << transcription, summary, audioFile, isLoading, loadingStep,
                    error, summaryAudio, procPc, speechPc, audVars, callVars >>
    /\ chat' = NoChat
    /\ messages' = << >>
    /\ input' = << >>
    /\ chatIsLoading' = FALSE
    /\ chatError' = NoError
    /\ UNCHANGED sends
    /\ Quiet

\* ------------------------------------------------------------------------
\* Actions of the Chatbot view
\* ------------------------------------------------------------------------
\* what console.error receives when chat.sendMessage rejects, and the text
\* handleSend shows for it
SendRejection == "request failed"
ChatSendError == "Failed to get response: request failed"

\* change event of the text input (disabled while isLoading or without a
\* chat session)
setInput ==
    /\ view = "chatbot" /\ ~chatIsLoading /\ chat # NoChat
    /\ \E text \in InputTexts : input' = text
    /\ UNCHANGED << chat, messages, chatIsLoading, chatError, sends >>
    /\ UNCHANGED << appVars, sumVars, audVars, callVars >>
    /\ Quiet

\* a handleSend without the test for blank input
handleSendBlank ==
    /\ view = "chatbot"
    /\ IF chatIsLoading \/ chat = NoChat
       THEN UNCHANGED chatVars
       ELSE /\ Len(messages) + 2 <= MaxMessages
            /\ messages' = Append(messages, [role |-> "user", text |-> input])
            /\ input' = << >>
            /\ chatIsLoading' = TRUE
            /\ chatError' = NoError
            /\ sends' = sends \cup {[inst |-> ChatInstance, chat |-> chat,
                                     message |-> input, before |-> messages]}
            /\ UNCHANGED chat
    /\ UNCHANGED << appVars, sumVars, audVars, callVars >>
    /\ Quiet

\* Enter in the text input or a click on the send button: handleSend up to
\* its await.  The handler's own guard is modelled for every call, also for
\* the calls the disabled controls rule out.  A request remembers the
\* instance and session it was sent on and the message list it was added to.
handleSend ==
    /\ view = "chatbot"
    /\ IF Trim(input) = << >> \/ chatIsLoading \/ chat = NoChat
       THEN UNCHANGED chatVars
       ELSE /\ Len(messages) + 2 <= MaxMessages
            /\ messages' = Append(messages, [role |-> "user", text |-> input])
            /\ input' = << >>
            /\ chatIsLoading' = TRUE
            /\ chatError' = NoError
            /\ sends' = sends \cup {[inst |-> ChatInstance, chat |-> chat,
                                     message |-> input, before |-> messages]}
            /\ UNCHANGED chat
    /\ UNCHANGED << appVars, sumVars, audVars, callVars >>
    /\ Quiet

\* chat.sendMessage has resolved for request r: the rest of the try block and
\* the finally.  The setters of an unmounted instance change nothing.
SendReturnsOf(r) ==
    /\ sends' = sends \ {r}
    /\ IF r.inst = ChatInstance
       THEN /\ messages' = Append(messages, [role |-> "model", text |-> ResponseText])
            /\ chatIsLoading' = FALSE
            /\ UNCHANGED << chat, input, chatError >>
       ELSE UNCHANGED << chat, messages, input, chatIsLoading, chatError >>
    /\ UNCHANGED << appVars, sumVars, audVars, callVars >>
    /\ Quiet

SendReturns == \E r \in sends : SendReturnsOf(r)

\* chat.sendMessage has rejected for request r: catch and finally
SendFailsOf(r) ==
    /\ sends' = sends \ {r}
    /\ IF r.inst = ChatInstance
       THEN /\ chatError' = ChatSendError
            /\ messages' = SubSeq(messages, 1, Len(messages) - 1)
            /\ chatIsLoading' = FALSE
            /\ UNCHANGED << chat, input >>
       ELSE UNCHANGED << chat, messages, input, chatIsLoading, chatError >>
    /\ UNCHANGED << appVars, sumVars, audVars, callVars >>
    /\ Logs(SendRejection)

SendFails == \E r \in sends : SendFailsOf(r)

\* ------------------------------------------------------------------------
\* utils/audio applied to drawn inputs
\* ------------------------------------------------------------------------
ByteSamples == {0, 1, 127, 128, 255}

RECURSIVE SeqsUpTo(_, _)
SeqsUpTo(S, n) ==
    IF n = 0 THEN {<< >>}
    ELSE LET shorter == SeqsUpTo(S, n - 1)
         IN  shorter \cup {Append(q, x) : q \in {r \in shorter : Len(r) = n - 1}, x \in S}

PcmInputs == SeqsUpTo(ByteSamples, MaxPcmLen)

B64Inputs == SpeechResults \cup
    { AudioB, << "A", "A", "=" >>, << "A", "A", "A", "A", "=" >>,
      << "A", "=", "=", "=" >>, << "A", "B", "=", "=" >>, << "A", "A", "A", "A" >>, << "/", "/", "9", "/" >>, << "A", "A", "A" >>,
      << "A", " ", "A", "A", "A" >>, << "A", "=", "A", "A" >>, << "A" >>,
      << "/", "3", "8", "A", "g", "A", "E", "=" >> }

\* standard base64 text of a byte sequence, padded with "="
RECURSIVE base64Encode(_)
base64Encode(bytes) ==
    IF Len(bytes) = 0 THEN << >>
    ELSE IF Len(bytes) = 1
    THEN LET n == bytes[1] * 16
         IN  << B64Alphabet[(n \div 64) + 1], B64Alphabet[(n % 64) + 1], "=", "=" >>
    ELSE IF Len(bytes) = 2
    THEN LET n == (bytes[1] * 256 + bytes[2]) * 4
         IN  << B64Alphabet[(n \div 4096) + 1], B64Alphabet[((n \div 64) % 64) + 1],
                B64Alphabet[(n % 64) + 1], "=" >>
    ELSE LET n == bytes[1] * 65536 + bytes[2] * 256 + bytes[3]
         IN  << B64Alphabet[(n \div 262144) + 1],
                B64Alphabet[((n \div 4096) % 64) + 1],
                B64Alphabet[((n \div 64) % 64) + 1],
                B64Alphabet[(n % 64) + 1] >>
             \o base64Encode(SubSeq(bytes, 4, Len(bytes)))

EncodedInputs == {base64Encode(bytes) : bytes \in PcmInputs \ {<< >>}}

\* nothing computed yet
NotDecoded == [ok |-> FALSE, error |-> "not run", bytes |-> << >>]

NotBuilt == NoBuffer("not run")

AppInit ==
    /\ view = "summarizer"
    /\ transcription = ""
    /\ summary = ""
    /\ audioFile = 0
    /\ isLoading = FALSE
    /\ loadingStep = StepNone
    /\ error = NoError
    /\ summaryAudio = NoAudio
    /\ procPc = "idle"
    /\ speechPc = "idle"

SummarizerInit ==
    /\ mount = 1
    /\ mounts = 1
    /\ isPlaying = FALSE
    /\ audioContextRef = 0
    /\ audioSourceRef = 0
    /\ ctxCount = 0
    /\ sources = {}
    /\ plays = {}
    /\ nextReq = 1

\* the Chatbot is not mounted at start; no remote call has been made
ChatbotInit ==
    /\ chat = NoChat
    /\ messages = << >>
    /\ input = << >>
    /\ chatIsLoading = FALSE
    /\ chatError = NoError
    /\ sends = {}
    /\ summarizeArg = ""
    /\ speechArg = ""

Init ==
    /\ AppInit
    /\ SummarizerInit
    /\ ChatbotInit
    /\ b64 = NoAudio
    /\ pcmData = NotDecoded
    /\ wavBlob = << >>
    /\ audioBuffer = NotBuilt
    /\ logged = NoLog
    /\ unreleased = 0

Next ==
    \/ TogglePlaying
    \/ TogglePlay
    \/ ToggleGenerate
    \/ handleFileChange
    \/ processAudio
    \/ TranscribeReturns
    \/ TranscribeFails
    \/ SummarizeReturns
    \/ SummarizeFails
    \/ SpeechReturns
    \/ SpeechFails
    \/ PlayResumed
    \/ PlayResumeFails
    \/ SourceEnded
    \/ handleDownload
    \/ ShowChatbot
    \/ ShowSummarizer

Spec == Init /\ [][Next]_vars

\* the App with the Chatbot: the steps that change the props of the Chatbot,
\* the navigation, and the Chatbot's own handlers
ChatNext ==
    \/ handleFileChange
    \/ processAudio
    \/ TranscribeReturns
    \/ TranscribeFails
    \/ SummarizeReturns
    \/ SummarizeFails
    \/ ShowChatbot
    \/ ShowSummarizer
    \/ setInput
    \/ handleSend
    \/ SendReturns
    \/ SendFails

ChatSpec == Init /\ [][ChatNext]_vars

\* the pipeline on one input: either a base64 text that decode turns into
\* bytes, or bytes given directly
AudioInit ==
    /\ AppInit
    /\ SummarizerInit
    /\ ChatbotInit
    /\ wavBlob = << >>
    /\ audioBuffer = NotBuilt
    /\ logged = NoLog
    /\ unreleased = 0
    /\ \/ b64 \in B64Inputs /\ pcmData = NotDecoded
       \/ b64 \in EncodedInputs /\ pcmData = NotDecoded
       \/ b64 = NoAudio /\ \E bytes \in PcmInputs :
                              pcmData = [ok |-> TRUE, error |-> "", bytes |-> bytes]

ApplyDecode ==
    /\ b64 # NoAudio /\ pcmData = NotDecoded
    /\ pcmData' = decode(b64)
    /\ UNCHANGED << b64, wavBlob, audioBuffer, appVars, sumVars, callVars, chatVars >>
    /\ Quiet

ApplyCreateWavBlob ==
    /\ pcmData # NotDecoded /\ pcmData.ok /\ wavBlob = << >>
    /\ wavBlob' = createWavBlob(pcmData.bytes)
    /\ UNCHANGED << b64, pcmData, audioBuffer, appVars, sumVars, callVars, chatVars >>
    /\ Quiet

ApplyDecodePcmData ==
    /\ pcmData # NotDecoded /\ pcmData.ok /\ audioBuffer = NotBuilt
    /\ audioBuffer' = decodePcmData(pcmData.bytes)
    /\ UNCHANGED << b64, pcmData, wavBlob, appVars, sumVars, callVars, chatVars >>
    /\ Quiet

AudioNext ==
    \/ ApplyDecode
    \/ ApplyCreateWavBlob
    \/ ApplyDecodePcmData

AudioSpec == AudioInit /\ [][AudioNext]_vars

\* ------------------------------------------------------------------------
\* Properties of utils/audio (checked under AudioSpec)
\* ------------------------------------------------------------------------
WavBuilt == wavBlob # << >>
BufferBuilt == audioBuffer # NotBuilt

\* C6 as stated: "AAAB/w==" decodes to [0,0,1,255]; the WAV has 48 bytes with
\* bytes 40-43 equal to 4; the buffer has 2 frames on 1 channel with samples
\* 0/32768 and 511/32768.
C6_EndToEndAsStated ==
    (b64 = AudioA /\ pcmData # NotDecoded /\ WavBuilt /\ BufferBuilt) =>
        /\ pcmData.ok /\ pcmData.bytes = << 0, 0, 1, 255 >>
        /\ Len(wavBlob) = 48
        /\ SubSeq(wavBlob, 41, 44) = << 4, 0, 0, 0 >>
        /\ audioBuffer.ok
        /\ audioBuffer.length = 2 /\ audioBuffer.numberOfChannels = 1
        /\ audioBuffer.channelData = << [num |-> 0, den |-> 32768],
                                        [num |-> 511, den |-> 32768] >>

\* C6 amended: the same, with the second sample -255/32768 (bytes 0x01, 0xFF
\* read little-endian are the int16 0xFF01 = -255).
C6_EndToEnd ==
    (b64 = AudioA /\ pcmData # NotDecoded /\ WavBuilt /\ BufferBuilt) =>
        /\ pcmData.ok /\ pcmData.bytes = << 0, 0, 1, 255 >>
        /\ Len(wavBlob) = 48
        /\ SubSeq(wavBlob, 41, 44) = << 4, 0, 0, 0 >>
        /\ audioBuffer.ok
        /\ audioBuffer.length = 2 /\ audioBuffer.numberOfChannels = 1
        /\ audioBuffer.channelData = << [num |-> 0, den |-> 32768],
                                        [num |-> -255, den |-> 32768] >>

C6_Witness ==
    b64 = AudioA /\ pcmData.ok /\ WavBuilt /\ BufferBuilt /\ audioBuffer.ok

\* the signed 16-bit little-endian integer of a low and a high byte
SignedLE(lo, hi) == IF hi >= 128 THEN lo + 256 * hi - 65536 ELSE lo + 256 * hi

FramesOf(bytes) ==
    [i \in 1..(Len(bytes) \div 2) |->
        [num |-> SignedLE(bytes[2 * i - 1], bytes[2 * i]), den |-> 32768]]

\* C7 as stated: for every even-length byte sequence decodePcmData returns a
\* 1-channel 24000 Hz buffer of len/2 frames, frame i being the signed
\* little-endian int16 of bytes 2i, 2i+1 over 32768.
C7_EveryEvenLengthAsStated ==
    (pcmData.ok /\ Len(pcmData.bytes) % 2 = 0 /\ BufferBuilt) =>
        /\ audioBuffer.ok
        /\ audioBuffer.numberOfChannels = 1
        /\ audioBuffer.sampleRate = 24000
        /\ audioBuffer.length = Len(pcmData.bytes) \div 2
        /\ audioBuffer.channelData = FramesOf(pcmData.bytes)

\* C7 amended: the same for every non-empty even-length byte sequence; so
\* [0x00,0x80] gives exactly -1 and [0xFF,0x7F] gives 32767/32768, not 1.
C7_PcmDecode ==
    (pcmData.ok /\ Len(pcmData.bytes) % 2 = 0 /\ Len(pcmData.bytes) > 0
        /\ BufferBuilt) =>
        /\ audioBuffer.ok
        /\ audioBuffer.numberOfChannels = 1
        /\ audioBuffer.sampleRate = 24000
        /\ audioBuffer.length = Len(pcmData.bytes) \div 2
        /\ audioBuffer.channelData = FramesOf(pcmData.bytes)
        /\ pcmData.bytes = << 0, 128 >> =>
              /\ audioBuffer.channelData[1].num = -32768
              /\ audioBuffer.channelData[1].num = - audioBuffer.channelData[1].den
        /\ pcmData.bytes = << 255, 127 >> =>
              /\ audioBuffer.channelData[1].num = 32767
              /\ audioBuffer.channelData[1].num # audioBuffer.channelData[1].den

C7_Witness ==
    /\ BufferBuilt /\ audioBuffer.ok
    /\ pcmData.bytes = << 255, 127 >>

\* C8: decodePcmData of an odd-length byte sequence fails with an error and
\* yields no buffer, neither truncated nor partial.
C8_OddLengthFails ==
    (pcmData.ok /\ Len(pcmData.bytes) % 2 = 1 /\ BufferBuilt) =>
        /\ ~audioBuffer.ok
        /\ audioBuffer.error = "RangeError"
        /\ audioBuffer.length = 0
        /\ audioBuffer.channelData = << >>

C8_Witness ==
    pcmData.ok /\ Len(pcmData.bytes) = 3 /\ BufferBuilt

\* C9: createWavBlob of N bytes has 44 + N bytes, bytes 4-7 read as
\* little-endian uint32 are 36 + N and bytes 40-43 are N.
C9_WavSizes ==
    (pcmData.ok /\ WavBuilt) =>
        /\ Len(wavBlob) = 44 + Len(pcmData.bytes)
        /\ getUint32LE(wavBlob, 4) = 36 + Len(pcmData.bytes)
        /\ getUint32LE(wavBlob, 40) = Len(pcmData.bytes)

C9_Witness ==
    pcmData.ok /\ WavBuilt /\ Len(pcmData.bytes) = 3

\* C10: the size-independent header fields: "RIFF", "WAVE", "fmt ", 16,
\* format 1, 1 channel, 24000 Hz, byte rate 48000, block align 2, 16 bits,
\* "data", multi-byte values little-endian.
C10_WavHeader ==
    (pcmData.ok /\ WavBuilt) =>
        /\ SubSeq(wavBlob, 1, 4) = << 82, 73, 70, 70 >>
        /\ SubSeq(wavBlob, 9, 12) = << 87, 65, 86, 69 >>
        /\ SubSeq(wavBlob, 13, 16) = << 102, 109, 116, 32 >>
        /\ SubSeq(wavBlob, 17, 20) = << 16, 0, 0, 0 >>
        /\ SubSeq(wavBlob, 21, 22) = << 1, 0 >>
        /\ SubSeq(wavBlob, 23, 24) = << 1, 0 >>
        /\ SubSeq(wavBlob, 25, 28) = << 192, 93, 0, 0 >>
        /\ getUint32LE(wavBlob, 24) = 24000
        /\ SubSeq(wavBlob, 29, 32) = << 128, 187, 0, 0 >>
        /\ getUint32LE(wavBlob, 28) = 48000
        /\ getUint32LE(wavBlob, 28) = (24000 * 1 * 16) \div 8
        /\ SubSeq(wavBlob, 33, 34) = << 2, 0 >>
        /\ SubSeq(wavBlob, 35, 36) = << 16, 0 >>
        /\ SubSeq(wavBlob, 37, 40) = << 100, 97, 116, 97 >>

C10_Witness ==
    pcmData.ok /\ WavBuilt /\ Len(pcmData.bytes) = 2 /\ b64 = NoAudio

\* C11: bytes 44 .. 44+len(p)-1 of createWavBlob(p) are p, byte for byte and
\* in order, and building the blob leaves p as it was.
C11_PayloadVerbatim ==
    [][(wavBlob' # wavBlob) =>
          /\ pcmData' = pcmData
          /\ Len(wavBlob') >= 44 + Len(pcmData.bytes)
          /\ \A i \in 1..Len(pcmData.bytes) : wavBlob'[44 + i] = pcmData.bytes[i]
          /\ SubSeq(wavBlob', 45, 44 + Len(pcmData.bytes)) = pcmData.bytes]_vars

C11_Witness ==
    WavBuilt /\ pcmData.ok /\ pcmData.bytes = << 255, 0, 128 >>

\* C12: decode(base64Encode(b)) = b for every byte sequence b, and the
\* output has as many bytes as were encoded, not as many as the text has
\* characters.
C12_RoundTrip ==
    \A b \in PcmInputs :
        (b # << >> /\ b64 = base64Encode(b) /\ pcmData # NotDecoded) =>
            /\ pcmData.ok
            /\ pcmData.bytes = b
            /\ Len(pcmData.bytes) = Len(b)
            /\ Len(pcmData.bytes) # Len(b64)

C12_Witness ==
    /\ b64 = base64Encode(<< 255, 128 >>)
    /\ pcmData.ok /\ pcmData.bytes = << 255, 128 >>

\* text that is base64 in the strict sense: a multiple of 4 characters of
\* the alphabet, the last one or two of which may be "="
IsValidBase64(t) ==
    /\ Len(t) % 4 = 0
    /\ \A i \in 1..Len(t) :
          \/ IsB64Char(t[i])
          \/ /\ t[i] = "="
             /\ i >= Len(t) - 1
             /\ t[Len(t)] = "="

\* C13: decode fails with an error, and returns no bytes, for every text that
\* is not valid base64 (a character outside the alphabet, invalid padding).
C13_InvalidFails ==
    (b64 # NoAudio /\ pcmData # NotDecoded /\ ~IsValidBase64(b64)) =>
        (~pcmData.ok /\ pcmData.bytes = << >>)

\* ------------------------------------------------------------------------
\* Properties of the error paths of play and download (checked under Spec)
\* ------------------------------------------------------------------------
\* the errors of the audio pipeline and of the save
PipelineErrors == {"InvalidCharacterError", "RangeError", "NotSupportedError", SaveError}

\* the buffer of a suspended play cannot be built
BufferFails(p) ==
    \/ ~decode(p.base64).ok
    \/ ~decodePcmData(decode(p.base64).bytes).ok

\* a suspended playBuffer call ends without having started a source:
\* resume() rejected, or decode / decodePcmData threw
FailedPlayStep ==
    \E p \in plays : plays' = plays \ {p} /\ (BufferFails(p) \/ sources' = sources)

\* a handleDownload call ends in its catch block
FailedDownloadStep == logged' \in PipelineErrors

\* C14: every error raised inside the audio pipeline during a play or a
\* download request reaches the UI orchestration layer as an error outcome;
\* none is swallowed inside the handler that triggered it.  An error that a
\* handler catches and logs has to show in the error state of the UI.
C14_ErrorsReachUI ==
    [][logged' # NoLog => error' = logged']_vars

\* C15: a play or download attempt that fails leaves transcription, summary
\* and summaryAudio exactly as they were before the attempt.
C15_FailureKeepsResults ==
    [][(FailedPlayStep \/ FailedDownloadStep) =>
          UNCHANGED << transcription, summary, summaryAudio >>]_vars

C15_Witness ==
    /\ logged = "InvalidCharacterError"
    /\ transcription # "" /\ summary # "" /\ summaryAudio = AudioBad

\* C16: if device activation or buffer construction fails during a play
\* request, no source is started, isPlaying stays false and audioSourceRef
\* is unchanged: the controller of the requesting Summarizer remains Idle.
C16_FailedPlayStaysIdle ==
    [][\A p \in plays :
          (p.inst = mount /\ plays' = plays \ {p}
              /\ (BufferFails(p) \/ sources' = sources)) =>
             /\ sources' = sources
             /\ isPlaying' = FALSE
             /\ audioSourceRef' = audioSourceRef]_vars

\* C17: every object URL created by a download request is revoked on every
\* path through handleDownload, also when the save throws; none stays
\* unreleased once handleDownload has returned.
C17_UrlsReleased == unreleased = 0

\* a source without the bookkeeping of the stops requested after it
Core(s) == [s EXCEPT !.stopSince = FALSE]

\* a stop issued by the audioFile effect (the prop has changed) or by the
\* unmount cleanup
StopStep ==
    \/ handleFileChange /\ (audioFile' # 0 \/ audioFile # 0)
    \/ ShowChatbot

\* C18: stop is idempotent: a stop issued while the controller is Idle
\* leaves it Idle, changes no playback state and raises no error, and two
\* consecutive stops have the same effect as one.
C18_StopStepIdempotent ==
    /\ (~isPlaying /\ StopStep) =>
          /\ {Core(s) : s \in sources'} = {Core(s) : s \in sources}
          /\ isPlaying' = FALSE
          /\ logged' \notin PipelineErrors
    /\ (TogglePlaying \/ (isPlaying /\ StopStep)) =>
          /\ isPlaying' = FALSE
          /\ StopRef(sources', audioSourceRef) = sources'
    /\ StopRef(StopRef(sources, audioSourceRef), audioSourceRef)
          = StopRef(sources, audioSourceRef)

C18_StopIdempotent == [][C18_StopStepIdempotent]_vars

\* unmounted with audio available and no play ever requested: the cleanup
\* issued its stop on an Idle controller
C18_Witness ==
    /\ mount = 0 /\ ~isPlaying
    /\ summaryAudio # NoAudio
    /\ nextReq = 1 /\ sources = {} /\ plays = {}

\* the contexts in use by the play requests and sources of an instance
ContextsOf(inst) ==
    {p.ctx : p \in {q \in plays : q.inst = inst}}
        \cup {s.ctx : s \in {t \in sources : t.inst = inst}}

\* C19: the AudioContext is not created before the first play request, and
\* every later play request of the same Summarizer reuses it: at most one
\* open handle per Summarizer lifetime, also when play requests overlap.
C19_OneContextStep ==
    /\ ctxCount > 0 => nextReq > 1
    /\ ctxCount <= mounts
    /\ \A inst \in 1..mounts : Cardinality(ContextsOf(inst)) <= 1
    /\ mount # 0 => ContextsOf(mount) \subseteq {audioContextRef}
    /\ ctxCount' # ctxCount =>
          /\ audioContextRef = 0
          /\ ctxCount' = ctxCount + 1
          /\ audioContextRef' = ctxCount'
          /\ nextReq' = nextReq + 1
    /\ (audioContextRef # 0 /\ mount' = mount) => audioContextRef' = audioContextRef

C19_OneContext == [][C19_OneContextStep]_vars

\* a second play request was made while the source of the first was
\* playing or stopping: both use the one context of the instance
C19_Witness ==
    \E s \in sources, p \in plays :
        s.inst = p.inst /\ s.req # p.req /\ s.ctx = p.ctx /\ ctxCount = 1

\* C20: after the Summarizer unmounts, and after the selected audio file
\* changes, no source started by it is live, including a source of a play
\* request whose activation was pending at that moment.
C20_NoLiveAfterStopStep ==
    /\ \A s \in LiveSources' : s.inst = mount'
    /\ (handleFileChange /\ (audioFile' # 0 \/ audioFile # 0)) =>
          \A s \in LiveSources' : s.inst # mount

C20_NoLiveAfterStop == [][C20_NoLiveAfterStopStep]_vars

\* ------------------------------------------------------------------------
\* Properties of the controls of the Summarizer (checked under Spec)
\* ------------------------------------------------------------------------
\* C28: whenever a source of the mounted Summarizer is live, audioSourceRef
\* refers to it and isPlaying is true, so the toggle can stop it; no live
\* source is orphaned by a later ended event or an overlapping play request.
C28_LiveIsControlled ==
    \A s \in LiveSources :
        s.inst = mount => (audioSourceRef = s.req /\ isPlaying)

\* C29: whenever a source of the mounted Summarizer is live, summary is
\* non-empty, so the Play/Stop control is rendered; starting processAudio
\* leaves no audio playing.
C29_LiveHasControlStep ==
    /\ \A s \in LiveSources' : s.inst = mount' => summary' # ""
    /\ processAudio => \A s \in LiveSources' : s.inst # mount

C29_LiveHasControl == [][C29_LiveHasControlStep]_vars

\* ------------------------------------------------------------------------
\* Properties of the playback controller (checked under Spec)
\* ------------------------------------------------------------------------
\* C1: in every reachable state at most one audio source is live.
C1_AtMostOneLive == Cardinality(LiveSources) <= 1

\* C2: a play request during whose device activation a stop was issued
\* (toggle, audio-file change or unmount) never starts a source.
C2_StopDuringSetupWins ==
    \A s \in sources : ~s.startedAfterStop

\* C3: after an explicit stop of a session its completion callback takes no
\* effect: the ended event of a stopped source changes neither isPlaying nor
\* audioSourceRef.
C3_NoCallbackAfterStop ==
    [][(\E s \in sources : s.state = "stopped" /\ s \notin sources')
       => (isPlaying' = isPlaying /\ audioSourceRef' = audioSourceRef)]_vars

\* C4: after play(A) then play(B) with no stop in between, the session of A
\* is not live when the session of B is: B is the only active session.
C4_SecondPlayReplacesFirst ==
    \A a \in sources, b \in sources :
        (a.inst = b.inst /\ a.req < b.req /\ ~a.stopSince /\ Live(b)) => ~Live(a)

\* C5: the toggle is a two-state machine.  Invoked while Playing it stops
\* the current source, sets isPlaying to false and starts nothing; invoked
\* while Idle with summaryAudio available it makes one play request, which
\* on activation starts exactly one source from frame 0, stores it in
\* audioSourceRef and sets isPlaying to true.
C5_ToggleStep ==
    /\ TogglePlaying =>
          /\ \E s \in LiveSources : s.req = audioSourceRef
          /\ \A s \in LiveSources' : s.req # audioSourceRef
          /\ isPlaying' = FALSE
          /\ {s.req : s \in sources'} = {s.req : s \in sources}
          /\ {s.req : s \in LiveSources'} = {s.req : s \in LiveSources} \ {audioSourceRef}
          /\ {p.req : p \in plays'} = {p.req : p \in plays}
    /\ TogglePlay =>
          /\ Cardinality(plays') = Cardinality(plays) + 1
          /\ \A p \in plays' \ plays : p.base64 = summaryAudio /\ p.inst = mount
          /\ sources' = sources
          /\ isPlaying' = isPlaying
    /\ \A p \in plays :
          (\E s \in sources' : s.req = p.req) =>
              /\ p \notin plays'
              /\ Cardinality(sources') = Cardinality(sources) + 1
              /\ sources \subseteq sources'
              /\ \A s \in sources' \ sources :
                    /\ s.req = p.req
                    /\ s.base64 = p.base64
                    /\ s.buffer = decodePcmData(decode(p.base64).bytes).channelData
                    /\ s.offset = 0
                    /\ Live(s)
                    /\ p.inst = mount =>
                          /\ audioSourceRef' = s.req
                          /\ isPlaying' = TRUE
    /\ \A s \in sources', t \in sources' : s.req = t.req => s = t

C5_Toggle == [][C5_ToggleStep]_vars

C5_Witness ==
    /\ isPlaying
    /\ \E s \in LiveSources : s.req = audioSourceRef /\ s.offset = 0
    /\ \E s \in sources : s.state = "stopped"

\* ------------------------------------------------------------------------
\* Properties of the App's handlers
\* ------------------------------------------------------------------------
\* a step in which a run of processAudio or handleGenerateSpeech ends: its
\* remote call has answered or failed and nothing of the run is left
RunEnds ==
    \/ TranscribeFails
    \/ SummarizeReturns
    \/ SummarizeFails
    \/ SpeechReturns
    \/ SpeechFails

C23_LoadingEndsStep ==
    /\ RunEnds => (~isLoading' /\ loadingStep' = StepNone)
    /\ (procPc' = "idle" /\ speechPc' = "idle")
          => (~isLoading' /\ loadingStep' = StepNone)

\* C23: every run of processAudio and of handleGenerateSpeech that gets an
\* answer or an error ends with isLoading false and loadingStep empty, and
\* the App is never loading while no run is in flight
C23_LoadingEnds == [][C23_LoadingEndsStep]_vars

\* right after a failed speech generation
C23_Witness ==
    /\ logged = "Failed to generate speech from summary."
    /\ ~isLoading /\ loadingStep = StepNone
    /\ procPc = "idle" /\ speechPc = "idle"

C24_FileChangeStep ==
    handleFileChange =>
        IF audioFile' # 0
        THEN /\ transcription' = "" /\ summary' = ""
             /\ error' = NoError /\ summaryAudio' = NoAudio
        ELSE /\ error' = "Please upload a valid audio file."
             /\ UNCHANGED << transcription, summary, summaryAudio >>

\* C24: handleFileChange with an audio file stores it and clears
\* transcription, summary, error and summaryAudio; with any other file, or
\* none, it sets the error and audioFile to null and leaves transcription,
\* summary and summaryAudio as they were
C24_FileChange == [][C24_FileChangeStep]_vars

\* an invalid selection made while results and generated audio exist
C24_Witness ==
    /\ error = "Please upload a valid audio file."
    /\ audioFile = 0
    /\ transcription # "" /\ summary # "" /\ summaryAudio # NoAudio

\* summarizeText is in flight exactly while procPc is "summarizing", and
\* summarizeArg is the text it was called with
C22_PipelineOrderStep ==
    /\ (procPc' = "summarizing" /\ procPc # "summarizing")
          => (TranscribeReturns /\ procPc = "transcribing")
    /\ procPc' = "summarizing"
          => (summarizeArg' = transcription' /\ transcription' \in TranscriptTexts)
    /\ procPc' # "summarizing" => summarizeArg' = ""
    /\ TranscribeFails
          => (procPc' = "idle" /\ summarizeArg' = "" /\ summary' = "")
    /\ SummarizeFails
          => /\ transcription' = transcription /\ transcription' = summarizeArg
             /\ summary' = ""
             /\ error' = "Failed to summarize text."

\* C22: summarizeText is called only when transcribeAudio has returned, with
\* the returned transcription as its input; when transcribeAudio fails it is
\* not called, and when it fails itself the transcription is kept, summary
\* stays empty and error is set
C22_PipelineOrder == [][C22_PipelineOrderStep]_vars

\* right after summarizeText failed on the returned transcription
C22_Witness ==
    /\ logged = "Failed to summarize text."
    /\ error = "Failed to summarize text."
    /\ transcription \in TranscriptTexts
    /\ summary = ""
    /\ procPc = "idle"

C25_SpeechOutcomeStep ==
    /\ \A response \in SpeechResponses :
          \/ generateSpeech(response).ok /\ generateSpeech(response).value # NoAudio
          \/ /\ ~generateSpeech(response).ok
             /\ generateSpeech(response).message = "Failed to generate speech from summary."
    /\ (speechPc = "generating" /\ speechPc' = "idle")
          => (SpeechReturns \/ SpeechFails)
    /\ SpeechReturns => summaryAudio' # NoAudio
    /\ SpeechFails
          => /\ summaryAudio' = summaryAudio
             /\ error' = "Failed to generate speech from summary."

\* C25: generateSpeech returns a non-empty base64 string or throws; every
\* failure, a response without audio data included, reaches the caller as
\* "Failed to generate speech from summary.", and handleGenerateSpeech then
\* leaves summaryAudio unchanged and sets error
C25_SpeechOutcome == [][C25_SpeechOutcomeStep]_vars

\* a failed generation: the error is shown and no audio is stored
C25_Witness ==
    /\ error = "Failed to generate speech from summary."
    /\ logged = error
    /\ summary # "" /\ summaryAudio = NoAudio
    /\ speechPc = "idle"

\* generateSpeech is in flight exactly while speechPc is "generating", and
\* speechArg is the text it was called with
C30_AudioOfSummaryStep ==
    /\ summaryAudio' # NoAudio => summary' # ""
    /\ ~(procPc' # "idle" /\ speechPc' # "idle")
    /\ speechPc' = "generating" => (speechArg' = summary' /\ summary' # "")
    /\ speechPc = "generating" => (summary' = summary /\ audioFile' = audioFile)
    /\ summaryAudio' # summaryAudio
          => \/ summaryAudio' = NoAudio
             \/ SpeechReturns /\ speechArg = summary'
    /\ summary' # summary => summaryAudio' = NoAudio

\* C30: whenever summaryAudio is non-null, summary is non-empty and
\* summaryAudio is what generateSpeech returned for the current summary:
\* the two handlers are never in flight together, summary and audioFile do
\* not change while generateSpeech is in flight, and every change of summary
\* leaves summaryAudio null
C30_AudioOfSummary == [][C30_AudioOfSummaryStep]_vars

\* audio stored for the summary on screen, after a playback request ended
C30_Witness ==
    /\ summaryAudio # NoAudio /\ summary # ""
    /\ procPc = "idle" /\ speechPc = "idle"
    /\ nextReq > 1 /\ plays = {} /\ sources = {}

C21_AutoPlayStep ==
    (SpeechReturns /\ mount # 0 /\ nextReq <= MaxRequests)
        => \E p \in plays' \ plays :
              p.inst = mount' /\ p.base64 = summaryAudio'

\* C21: when Play has started handleGenerateSpeech and generateSpeech
\* succeeds, the auto-play effect of the mounted Summarizer starts the
\* playback of the generated audio in the step that stores it, without a
\* further click
C21_AutoPlay == [][C21_AutoPlayStep]_vars

\* ------------------------------------------------------------------------
\* Properties of the Chatbot
\* ------------------------------------------------------------------------
C26_FailedSendRestoresStep ==
    \A r \in sends :
        (SendFailsOf(r) /\ r.inst = ChatInstance) => messages' = r.before

\* C26: when chat.sendMessage fails, the message list of the Chatbot is
\* again the list the message was added to, also when the chat was
\* initialised again while the request was in flight
C26_FailedSendRestores == [][C26_FailedSendRestoresStep]_vars

\* the requests in flight of the Chatbot instance i
InFlight(S, i) == {r \in S : r.inst = i}

C27_OneRequestStep ==
    /\ \A i \in {r.inst : r \in sends'} : Cardinality(InFlight(sends', i)) <= 1
    /\ view' = "chatbot"
          => (chatIsLoading' <=> InFlight(sends', mounts') # {})
    /\ (handleSend /\ (Trim(input) = << >> \/ chatIsLoading \/ chat = NoChat))
          => UNCHANGED chatVars
    /\ sends' \ sends # {}
          => /\ handleSend
             /\ Trim(input) # << >> /\ ~chatIsLoading /\ chat # NoChat
    /\ \A r \in sends :
          ((SendReturnsOf(r) \/ SendFailsOf(r)) /\ r.inst = ChatInstance)
              => ~chatIsLoading'

====
